---- MODULE Spec2Model ----
(***************************************************************************)
(* Recording-session toggle protocol of whispy (src/voice_recorder.py).    *)
(* Every hotkey press is one OS process running main(); the processes      *)
(* coordinate only through the state file ~/.whispy_state and SIGUSR1.     *)
(***************************************************************************)
EXTENDS Integers, Sequences, FiniteSets, TLC

NumProcs == 2
MaxChunks == 1
MaxFaults == 1

Procs == 1..NumProcs
None == 0
Modes == {"toggle", "status"}

VARIABLES
  file,    \* content of ~/.whispy_state (the path's current inode)
  proc,    \* per process: position in main(), the VoiceRecorder fields, history
  lastOp,  \* history: which process last wrote or unlinked the state file, from where
  faults,  \* history: SIGTERM/SIGINT deliveries (terms) and process deaths (crashes)
  overlapped, \* history: two processes were inside state-file sections at once
  u        \* one VoiceRecorder driven call by call (whole method calls), see below

vars == <<file, proc, lastOp, faults, overlapped, u>>

----------------------------------------------------------------------------
\* The state file

Absent == [kind |-> "absent", recording |-> FALSE, pid |-> None]
Empty == [kind |-> "empty", recording |-> FALSE, pid |-> None]
Corrupt == [kind |-> "corrupt", recording |-> FALSE, pid |-> None]
Record(r, pid) == [kind |-> "record", recording |-> r, pid |-> pid]

FileValues ==
  {Absent, Empty, Corrupt} \cup {Record(r, pid) : r \in BOOLEAN, pid \in Procs \cup {None}}

DefaultState == [recording |-> FALSE, pid |-> None]

PcValues ==
  {"unborn", "init", "gs_read", "gs_probe", "gs_cleanup", "tg_probe", "tg_kill",
   "sr_notify", "sr_open", "sr_set_open", "sr_set_dump", "sr_loop",
   "stop_begin", "se_set_open", "se_set_dump", "sf_set_open", "sf_set_dump",
   "pr_noaudio", "pr_transcribe",
   "pr_tfail", "pr_output", "pr_finally", "sr_fail", "exited", "dead", "foreign"}

\* A process before main() starts (its VoiceRecorder as __init__ leaves it).
Fresh ==
  [pc |-> "unborn", mode |-> "toggle", recording |-> FALSE, stream |-> "none",
   audio_buffer |-> <<>>, st |-> DefaultState, fdLinked |-> FALSE,
   pendingUSR1 |-> FALSE, artifact |-> "none", result |-> "none", exitCode |-> -1,
   view |-> "none", sentTo |-> None, usr1At |-> "none", termAt |-> "none",
   pipelineCalls |-> 0, handlers |-> FALSE, printed |-> "none", waybar |-> "none"]

Alive(p) == proc[p].pc \notin {"unborn", "exited", "dead"}

\* os.kill(pid, 0) succeeds
is_process_running(pid) == pid # None /\ pid \in Procs /\ Alive(pid)

Op(p, site) == [by |-> p, via |-> site]

Upd(fn, p, v) == [fn EXCEPT ![p] = v]

\* The phase of the recording session a position belongs to (Idle, Capturing,
\* Finalizing, then the downstream pipeline).
Phase(pcv) ==
  CASE pcv = "sr_loop" -> "capturing"
    [] pcv \in {"stop_begin", "se_set_open", "se_set_dump", "sf_set_open",
                "sf_set_dump"} -> "finalizing"
    [] pcv \in {"pr_noaudio", "pr_transcribe", "pr_tfail", "pr_output", "pr_finally"}
         -> "pipeline"
    [] OTHER -> "idle"

\* sys.exit(code) reaching the interpreter's top level: the process image is gone,
\* what stays is the exit status, the files it left and the history.
Exit(s, code) ==
  [Fresh EXCEPT !.pc = "exited", !.exitCode = code, !.mode = s.mode,
                !.stream = s.stream, !.artifact = s.artifact, !.sentTo = s.sentTo,
                !.termAt = s.termAt, !.pipelineCalls = s.pipelineCalls,
                !.recording = s.recording, !.view = s.view,
                !.printed = s.printed, !.waybar = s.waybar]

\* Unlinking the path leaves every open descriptor on an orphaned inode.
Unlinked(pr) == [q \in Procs |-> [pr[q] EXCEPT !.fdLinked = FALSE]]

\* no method has been called on its own
UnitIdle == [call |-> "none"]

Init ==
  /\ file = Absent
  /\ proc = [p \in Procs |-> Fresh]
  /\ lastOp = Op(None, "none")
  /\ faults = [terms |-> 0, crashes |-> 0, signals |-> 0, reuses |-> 0]
  /\ overlapped = FALSE
  /\ u = UnitIdle

----------------------------------------------------------------------------
\* main(): one invocation per hotkey press (or per --status query)

Invoke(p, m) ==
  /\ proc[p].pc = "unborn"
  /\ \A q \in Procs : q < p => proc[q].pc # "unborn"
  /\ proc' = Upd(proc, p, [proc[p] EXCEPT !.pc = "init", !.mode = m])
  /\ UNCHANGED <<file, lastOp, faults>>

\* variant: __init__ returns without registering the signal handlers
Construct_NoHandlers(p, key) ==
  /\ proc[p].pc = "init"
  /\ proc' = Upd(proc, p, IF key THEN [proc[p] EXCEPT !.pc = "gs_read"]
                                 ELSE Exit(proc[p], 1))
  /\ UNCHANGED <<file, lastOp, faults>>

\* VoiceRecorder.__init__: without GROQ_API_KEY (key = FALSE) sys.exit(1); else the
\* fields are set and the SIGUSR1, SIGTERM and SIGINT handlers registered
Construct(p, key) ==
  /\ proc[p].pc = "init"
  /\ proc' = Upd(proc, p, IF key THEN [proc[p] EXCEPT !.pc = "gs_read", !.handlers = TRUE]
                                 ELSE Exit(proc[p], 1))
  /\ UNCHANGED <<file, lastOp, faults>>

----------------------------------------------------------------------------
\* get_state() and what its caller does with the result

\* variant: --status falls through into toggle_recording
GetStateReturn_StatusToggles(s, ret, v) ==
  LET t == [s EXCEPT !.st = ret, !.view = v] IN
  IF ret.recording THEN [t EXCEPT !.pc = "tg_probe"]
  ELSE [t EXCEPT !.pc = "sr_notify"]

\* variant: toggle_recording starts a session whatever get_state returned
GetStateReturn_AlwaysStart(s, ret, v) ==
  LET t == [s EXCEPT !.st = ret, !.view = v] IN
  IF s.mode = "status"
    THEN Exit([t EXCEPT !.printed = IF ret.recording THEN "recording" ELSE "idle"], 0)
  ELSE [t EXCEPT !.pc = "sr_notify"]

\* get_state() returns ret to main() (--status: print "recording" if
\* state["recording"] else "idle", sys.exit(0)) or to toggle_recording()
GetStateReturn(s, ret, v) ==
  LET t == [s EXCEPT !.st = ret, !.view = v] IN
  IF s.mode = "status"
    THEN Exit([t EXCEPT !.printed = IF ret.recording THEN "recording" ELSE "idle"], 0)
  ELSE IF ret.recording THEN [t EXCEPT !.pc = "tg_probe"]
  ELSE [t EXCEPT !.pc = "sr_notify"]

\* exists() + open() + json.load()
GetStateRead(p) ==
  LET s == proc[p]
      state == [recording |-> file.recording, pid |-> file.pid] IN
  /\ s.pc = "gs_read"
  /\ proc' = Upd(proc, p,
       IF file.kind # "record" THEN GetStateReturn(s, DefaultState, "inactive")
       ELSE IF state.recording /\ state.pid # None
         THEN [s EXCEPT !.pc = "gs_probe", !.st = state]
         ELSE GetStateReturn(s, state, IF state.recording THEN "active" ELSE "inactive"))
  /\ UNCHANGED <<file, lastOp, faults>>

\* variant: the record is deleted without asking whether its owner is alive
GetStateProbe_NoCheck(p) ==
  LET s == proc[p] IN
  /\ s.pc = "gs_probe"
  /\ proc' = Upd(proc, p, [s EXCEPT !.pc = "gs_cleanup"])
  /\ UNCHANGED <<file, lastOp, faults>>

\* if not self.is_process_running(state["pid"])
GetStateProbe(p) ==
  LET s == proc[p] IN
  /\ s.pc = "gs_probe"
  /\ proc' = Upd(proc, p,
       IF is_process_running(s.st.pid) THEN GetStateReturn(s, s.st, "active")
       ELSE [s EXCEPT !.pc = "gs_cleanup"])
  /\ UNCHANGED <<file, lastOp, faults>>

\* variant: the stale record is reported inactive but left on disk
GetStateCleanup_KeepFile(p) ==
  LET s == proc[p] IN
  /\ s.pc = "gs_cleanup"
  /\ proc' = Upd(proc, p, GetStateReturn(s, DefaultState, "stale"))
  /\ UNCHANGED <<file, lastOp, faults>>

\* self.cleanup_state(); return {"recording": False, "pid": None}
GetStateCleanup(p) ==
  LET s == proc[p] IN
  /\ s.pc = "gs_cleanup"
  /\ file' = Absent
  /\ lastOp' = IF file = Absent THEN lastOp ELSE Op(p, "get_state")
  /\ proc' = Upd(IF file = Absent THEN proc ELSE Unlinked(proc), p,
                 GetStateReturn(s, DefaultState, "stale"))
  /\ UNCHANGED faults

----------------------------------------------------------------------------
\* toggle_recording(): the stop path

\* variant: a toggle that finds the session active starts one of its own
ToggleProbe_StartsAnyway(p) ==
  LET s == proc[p] IN
  /\ s.pc = "tg_probe"
  /\ proc' = Upd(proc, p, [s EXCEPT !.pc = "sr_notify"])
  /\ UNCHANGED <<file, lastOp, faults>>

\* variant: a toggle that finds the owner gone deletes the record before it fails
ToggleProbe_ClearsState(p) ==
  LET s == proc[p] IN
  /\ s.pc = "tg_probe"
  /\ file' = IF is_process_running(s.st.pid) THEN file ELSE Absent
  /\ lastOp' = IF file' = file THEN lastOp ELSE Op(p, "toggle_recording")
  /\ proc' = Upd(IF file' = file THEN proc ELSE Unlinked(proc), p,
       IF is_process_running(s.st.pid) THEN [s EXCEPT !.pc = "tg_kill"]
       ELSE Exit(s, 1))
  /\ UNCHANGED faults

\* if recording_pid and self.is_process_running(recording_pid)
ToggleProbe(p) ==
  LET s == proc[p] IN
  /\ s.pc = "tg_probe"
  /\ proc' = Upd(proc, p,
       IF is_process_running(s.st.pid) THEN [s EXCEPT !.pc = "tg_kill"]
       ELSE Exit(s, 1))
  /\ UNCHANGED <<file, lastOp, faults>>

\* variant: the signal goes to every live process
ToggleKill_Broadcast(p) ==
  LET s == proc[p]
      target == s.st.pid IN
  /\ s.pc = "tg_kill"
  /\ proc' = IF Alive(target)
       THEN [q \in Procs |->
               IF q = p THEN Exit([s EXCEPT !.sentTo = target], 0)
               ELSE IF Alive(q) THEN [proc[q] EXCEPT !.pendingUSR1 = TRUE]
               ELSE proc[q]]
       ELSE Upd(proc, p, Exit(s, 1))
  /\ UNCHANGED <<file, lastOp, faults>>

\* variant: the toggle returns success without sending SIGUSR1
ToggleKill_NoSignal(p) ==
  LET s == proc[p]
      target == s.st.pid IN
  /\ s.pc = "tg_kill"
  /\ proc' = Upd(proc, p, IF Alive(target) THEN Exit([s EXCEPT !.sentTo = target], 0)
                                           ELSE Exit(s, 1))
  /\ UNCHANGED <<file, lastOp, faults>>

\* os.kill(recording_pid, signal.SIGUSR1)
ToggleKill(p) ==
  LET s == proc[p]
      target == s.st.pid IN
  /\ s.pc = "tg_kill"
  /\ proc' = IF Alive(target)
       THEN [proc EXCEPT ![target].pendingUSR1 = TRUE,
                         ![p] = Exit([s EXCEPT !.sentTo = target], 0)]
       ELSE Upd(proc, p, Exit(s, 1))
  /\ UNCHANGED <<file, lastOp, faults>>

----------------------------------------------------------------------------
\* set_state(): open(state_file, "w") truncates, json.dump + close writes

SetStateSites == {"sr_set_open", "se_set_open", "sf_set_open"}

SetStateCaller(pcv) == IF pcv \in {"sr_set_open", "sr_set_dump"} THEN "start_recording" ELSE "stop_recording"

\* variant: the stop path keeps the owner in the record it writes
SetStateArg_KeepsPid(p, pcv) == Record(pcv = "sr_set_dump", p)

\* the record each call site passes to set_state
SetStateArg(p, pcv) == IF pcv = "sr_set_dump" THEN Record(TRUE, p) ELSE Record(FALSE, None)

SetStateNext(pcv) ==
  CASE pcv = "sr_set_open" -> "sr_set_dump"
    [] pcv = "se_set_open" -> "se_set_dump"
    [] pcv = "sf_set_open" -> "sf_set_dump"
    [] pcv = "sr_set_dump" -> "sr_loop"
    [] pcv = "se_set_dump" -> "pr_noaudio"
    [] pcv = "sf_set_dump" -> "pr_transcribe"

\* what stop_recording writes to the status indicator just before its set_state
StopWaybar(pcv, old) ==
  CASE pcv = "se_set_open" -> "idle"
    [] pcv = "sf_set_open" -> "processing"
    [] OTHER -> old

\* (in stop_recording: show_notification and update_waybar first, then)
\* with open(self.state_file, "w") as f
SetStateOpen(p) ==
  LET s == proc[p] IN
  /\ s.pc \in SetStateSites
  /\ file' = Empty
  /\ lastOp' = Op(p, SetStateCaller(s.pc))
  /\ proc' = Upd(proc, p, [s EXCEPT !.pc = SetStateNext(s.pc), !.fdLinked = TRUE,
                                    !.waybar = StopWaybar(s.pc, @)])
  /\ UNCHANGED faults

\* What the path holds after new is written from offset 0 of the descriptor:
\* unchanged if the descriptor's inode was unlinked meanwhile; new if the inode is
\* still empty or holds the same bytes; and when another writer's record is already
\* there, new or (new being the shorter) new followed by the other record's tail.
DumpOutcomes(old, new, linked) ==
  IF ~linked THEN {old}
  ELSE IF old.kind = "empty" \/ old = new THEN {new}
  ELSE {new, Corrupt}

\* json.dump(state, f) and the close that flushes it
SetStateDump(p) ==
  LET s == proc[p] IN
  /\ s.pc \in {"sr_set_dump", "se_set_dump", "sf_set_dump"}
  /\ \E out \in DumpOutcomes(file, SetStateArg(p, s.pc), s.fdLinked) :
       /\ file' = out
       /\ lastOp' = IF s.fdLinked THEN Op(p, SetStateCaller(s.pc)) ELSE lastOp
  /\ proc' = Upd(proc, p, [s EXCEPT !.pc = SetStateNext(s.pc), !.fdLinked = FALSE])
  /\ UNCHANGED faults

----------------------------------------------------------------------------
\* start_recording()

\* the re-entrancy guard, show_notification, update_waybar("recording"), then
\* self.recording = True; self.audio_buffer = []
StartNotify(p) ==
  LET s == proc[p] IN
  /\ s.pc = "sr_notify"
  /\ proc' = Upd(proc, p,
       IF s.recording THEN Exit(s, 1)
       ELSE [s EXCEPT !.pc = "sr_open", !.recording = TRUE, !.audio_buffer = <<>>,
                      !.waybar = "recording"])
  /\ UNCHANGED <<file, lastOp, faults>>

OpenOutcomes == {"ok", "fail_open", "fail_start"}

\* self.stream = sd.InputStream(...); self.stream.start()
StartOpen(p, outcome) ==
  LET s == proc[p] IN
  /\ s.pc = "sr_open"
  /\ proc' = Upd(proc, p,
       CASE outcome = "ok" -> [s EXCEPT !.pc = "sr_set_open", !.stream = "open"]
         [] outcome = "fail_open" -> [s EXCEPT !.pc = "sr_fail"]
         [] outcome = "fail_start" -> [s EXCEPT !.pc = "sr_fail", !.stream = "created"])
  /\ UNCHANGED <<file, lastOp, faults>>

\* while self.recording: time.sleep(0.1)
WaitLoop(p) ==
  LET s == proc[p] IN
  /\ s.pc = "sr_loop"
  /\ ~s.recording
  /\ proc' = Upd(proc, p, [s EXCEPT !.pc = "stop_begin"])
  /\ UNCHANGED <<file, lastOp, faults>>

\* variant: the handler reports the failure and leaves self.recording set
StartFailed_KeepsFlag(p) ==
  LET s == proc[p] IN
  /\ s.pc = "sr_fail"
  /\ proc' = Upd(proc, p, Exit([s EXCEPT !.waybar = "idle"], 1))
  /\ UNCHANGED <<file, lastOp, faults>>

\* except Exception: self.recording = False; update_waybar("idle"); return False
StartFailed(p) ==
  LET s == proc[p] IN
  /\ s.pc = "sr_fail"
  /\ proc' = Upd(proc, p, Exit([s EXCEPT !.recording = FALSE, !.waybar = "idle"], 1))
  /\ UNCHANGED <<file, lastOp, faults>>

\* audio_callback on the capture thread; a chunk is named by its place among the
\* chunks kept
audio_callback(s) ==
  [s EXCEPT !.audio_buffer = IF s.recording THEN Append(@, Len(@) + 1) ELSE @]

AudioCallback(p) ==
  LET s == proc[p] IN
  /\ Alive(p)
  /\ s.stream = "open"
  /\ Len(s.audio_buffer) < MaxChunks
  /\ proc' = Upd(proc, p, audio_callback(s))
  /\ UNCHANGED <<file, lastOp, faults>>

----------------------------------------------------------------------------
\* stop_recording()

\* variant: the artifact is written but its path is not returned
stop_recording_DropsPath(s) ==
  IF s.stream = "none" /\ s.audio_buffer = <<>>
    THEN [s EXCEPT !.pc = "pr_noaudio"]
    ELSE IF s.audio_buffer = <<>>
      THEN [s EXCEPT !.recording = FALSE, !.stream = "none", !.pc = "se_set_open"]
      ELSE [s EXCEPT !.recording = FALSE, !.stream = "none", !.pc = "se_set_open",
                     !.artifact = "exists"]

\* The "nothing to stop" guard; self.recording = False and the stream stopped and
\* closed; then either the empty-buffer report (show_notification, update_waybar
\* up to its set_state), or np.concatenate, NamedTemporaryFile(delete=False) and
\* wav.write (then show_notification, update_waybar up to its set_state).
stop_recording(s) ==
  IF s.stream = "none" /\ s.audio_buffer = <<>>
    THEN [s EXCEPT !.pc = "pr_noaudio"]
    ELSE IF s.audio_buffer = <<>>
      THEN [s EXCEPT !.recording = FALSE, !.stream = "none", !.pc = "se_set_open"]
      ELSE [s EXCEPT !.recording = FALSE, !.stream = "none", !.pc = "sf_set_open",
                     !.artifact = "exists"]

StopRecording(p) ==
  /\ proc[p].pc = "stop_begin"
  /\ proc' = Upd(proc, p, stop_recording(proc[p]))
  /\ UNCHANGED <<file, lastOp, faults>>

----------------------------------------------------------------------------
\* process_recording(): the downstream pipeline inside try/finally

\* variant: the pipeline is entered although stop_recording returned no path
ProcessNoAudio_RunsPipeline(p) ==
  /\ proc[p].pc = "pr_noaudio"
  /\ proc' = Upd(proc, p, [proc[p] EXCEPT !.pc = "pr_transcribe"])
  /\ UNCHANGED <<file, lastOp, faults>>

\* if not audio_file: update_waybar("idle"); return False
ProcessNoAudio(p) ==
  /\ proc[p].pc = "pr_noaudio"
  /\ proc' = Upd(proc, p, Exit([proc[p] EXCEPT !.waybar = "idle"], 1))
  /\ UNCHANGED <<file, lastOp, faults>>

\* transcription = self.transcribe_audio(audio_file)
Transcribe(p, ok) ==
  LET s == proc[p] IN
  /\ s.pc = "pr_transcribe"
  /\ proc' = Upd(proc, p, [s EXCEPT !.pipelineCalls = @ + 1,
                                    !.pc = IF ok THEN "pr_output" ELSE "pr_tfail"])
  /\ UNCHANGED <<file, lastOp, faults>>

\* if not transcription: show_notification, update_waybar("idle"), return False
TranscribeFailed(p) ==
  /\ proc[p].pc = "pr_tfail"
  /\ proc' = Upd(proc, p, [proc[p] EXCEPT !.pc = "pr_finally", !.result = "false",
                                          !.waybar = "idle"])
  /\ UNCHANGED <<file, lastOp, faults>>

OutputOutcomes == {"true", "false", "raise"}

\* improve_text / output_text by processing mode, then update_waybar("idle") and
\* return success; or an exception that skips both
Output(p, r) ==
  /\ proc[p].pc = "pr_output"
  /\ proc' = Upd(proc, p, [proc[p] EXCEPT !.pc = "pr_finally", !.result = r,
                              !.waybar = IF r = "raise" THEN @ ELSE "idle"])
  /\ UNCHANGED <<file, lastOp, faults>>

\* finally: self.cleanup_temp_file(audio_file), then the return or the raise goes on
Finally(p) ==
  LET s == proc[p]
      t == [s EXCEPT !.artifact = "deleted"] IN
  /\ s.pc = "pr_finally"
  /\ proc' = Upd(proc, p,
       CASE s.result = "true" -> Exit(t, 0)
         [] s.result = "false" -> Exit(t, 1)
         [] s.result = "raise" -> [t EXCEPT !.pc = "sr_fail"]
         [] s.result = "exit" -> Exit(t, 0))
  /\ UNCHANGED <<file, lastOp, faults>>

----------------------------------------------------------------------------
\* Signals

\* variant: the handler goes straight to finalization
stop_recording_signal_StopsNow(s) ==
  [s EXCEPT !.recording = FALSE, !.pendingUSR1 = FALSE, !.usr1At = Phase(s.pc),
            !.pc = "stop_begin"]

\* variant: the handler leaves self.recording as it is
stop_recording_signal_KeepFlag(s) ==
  [s EXCEPT !.pendingUSR1 = FALSE, !.usr1At = Phase(s.pc)]

\* stop_recording_signal: the SIGUSR1 handler
stop_recording_signal(s) ==
  [s EXCEPT !.recording = FALSE, !.pendingUSR1 = FALSE, !.usr1At = Phase(s.pc)]

\* SIGUSR1 reaches the main thread: the handler runs if __init__ registered it,
\* otherwise the default disposition ends the process
DeliverUSR1(p) ==
  /\ Alive(p)
  /\ proc[p].pendingUSR1
  /\ proc' = Upd(proc, p, IF proc[p].handlers THEN stop_recording_signal(proc[p])
                                              ELSE [Fresh EXCEPT !.pc = "dead"])
  /\ UNCHANGED <<file, lastOp, faults>>

\* Code under a bare "except:", which also catches the handler's SystemExit:
\* the body of get_state, show_notification and update_waybar.
GetStatePcs == {"gs_read", "gs_probe", "gs_cleanup"}
NotifyPcs == {"sr_notify", "se_set_open", "sf_set_open", "pr_noaudio", "pr_tfail",
              "pr_output", "sr_fail"}
\* Code inside the try/finally of process_recording.
TryPcs == {"pr_transcribe", "pr_tfail", "pr_output"}

\* variant: the handler exits without touching the stream
cleanup_and_exit_LeavesStream(s) == [s EXCEPT !.termAt = Phase(s.pc)]

\* cleanup_and_exit up to sys.exit(0): stream stopped and closed, cleanup_state()
cleanup_and_exit(s) ==
  [s EXCEPT !.stream = IF @ = "none" THEN "none" ELSE "closed", !.termAt = Phase(s.pc)]

\* where the SystemExit raised by the handler takes the main thread
SystemExit(s, swallowed) ==
  IF swallowed
    THEN IF s.pc \in GetStatePcs THEN GetStateReturn(s, DefaultState, "interrupted") ELSE s
    ELSE IF s.pc \in TryPcs THEN [s EXCEPT !.pc = "pr_finally", !.result = "exit"]
    ELSE Exit(s, 0)

\* SIGTERM or SIGINT delivered to a process whose handlers are registered
Terminate(p, swallowed) ==
  LET s == proc[p] IN
  /\ Alive(p)
  /\ s.handlers
  /\ faults.terms + faults.crashes + faults.signals < MaxFaults
  /\ faults' = [faults EXCEPT !.terms = @ + 1]
  /\ swallowed => s.pc \in GetStatePcs \cup NotifyPcs
  /\ file' = Absent
  /\ lastOp' = IF file = Absent THEN lastOp ELSE Op(p, "cleanup_and_exit")
  /\ proc' = Upd(IF file = Absent THEN proc ELSE Unlinked(proc), p,
                 [SystemExit(cleanup_and_exit(s), swallowed) EXCEPT !.fdLinked = FALSE])

\* The process dies with no handler run (SIGKILL, power loss, a signal before
\* __init__ registered the handlers); the OS closes its stream.
Crash(p) ==
  /\ Alive(p)
  /\ faults.terms + faults.crashes + faults.signals < MaxFaults
  /\ faults' = [faults EXCEPT !.crashes = @ + 1]
  /\ proc' = Upd(proc, p, [Fresh EXCEPT !.pc = "dead", !.artifact = proc[p].artifact])
  /\ UNCHANGED <<file, lastOp>>

----------------------------------------------------------------------------

\* A process is inside a state-file section from the read of get_state until
\* get_state returns, on the start path until its own record is written, and in
\* any set_state between the truncating open and the write.
InSection(s) ==
  s.pc \in {"gs_probe", "gs_cleanup", "sr_notify", "sr_open",
            "sr_set_open", "sr_set_dump", "se_set_dump", "sf_set_dump"}

Overlap(pr) == \E p, q \in Procs : p # q /\ InSection(pr[p]) /\ InSection(pr[q])

\* every step also records whether two processes are now inside sections at once
Track == overlapped' = (overlapped \/ Overlap(proc')) /\ UNCHANGED u

Next ==
  \E p \in Procs :
    \/ (\E m \in Modes : Invoke(p, m)) /\ Track
    \/ (\E key \in BOOLEAN : Construct(p, key)) /\ Track
    \/ (GetStateRead(p)) /\ Track
    \/ (GetStateProbe(p)) /\ Track
    \/ (GetStateCleanup(p)) /\ Track
    \/ (ToggleProbe(p)) /\ Track
    \/ (ToggleKill(p)) /\ Track
    \/ (StartNotify(p)) /\ Track
    \/ (\E o \in OpenOutcomes : StartOpen(p, o)) /\ Track
    \/ (SetStateOpen(p)) /\ Track
    \/ (SetStateDump(p)) /\ Track
    \/ (WaitLoop(p)) /\ Track
    \/ (StartFailed(p)) /\ Track
    \/ (AudioCallback(p)) /\ Track
    \/ (StopRecording(p)) /\ Track
    \/ (ProcessNoAudio(p)) /\ Track
    \/ (\E ok \in BOOLEAN : Transcribe(p, ok)) /\ Track
    \/ (TranscribeFailed(p)) /\ Track
    \/ (\E r \in OutputOutcomes : Output(p, r)) /\ Track
    \/ (Finally(p)) /\ Track
    \/ (DeliverUSR1(p)) /\ Track
    \/ (\E sw \in BOOLEAN : Terminate(p, sw)) /\ Track
    \/ (Crash(p)) /\ Track

Spec == Init /\ [][Next]_vars

\* The steps of p's own code: every runnable process is scheduled, and a pending
\* signal is handled; hotkey presses, audio chunks, SIGTERM/SIGINT and deaths are not
\* owed to anyone.
ProcStep(p) ==
  /\ \/ (\E key \in BOOLEAN : Construct(p, key)) \/ GetStateRead(p) \/ GetStateProbe(p) \/ GetStateCleanup(p)
     \/ ToggleProbe(p) \/ ToggleKill(p) \/ StartNotify(p)
     \/ \E o \in OpenOutcomes : StartOpen(p, o)
     \/ SetStateOpen(p) \/ SetStateDump(p) \/ WaitLoop(p) \/ StartFailed(p)
     \/ StopRecording(p) \/ ProcessNoAudio(p) \/ \E ok \in BOOLEAN : Transcribe(p, ok)
     \/ TranscribeFailed(p) \/ \E r \in OutputOutcomes : Output(p, r) \/ Finally(p)
     \/ DeliverUSR1(p)
  /\ Track

LiveSpec == Spec /\ \A p \in Procs : WF_vars(ProcStep(p))

\* The hotkey can be pressed for ever: each press is a new process, so an identity
\* whose process is gone and which nothing names any more (not the state file, not a
\* state some live process has read) stands for the next new process.
Recycle(p) ==
  /\ proc[p].pc \in {"exited", "dead"}
  /\ ~(file.kind = "record" /\ file.pid = p)
  /\ \A q \in Procs : proc[q].st.pid # p
  /\ proc' = Upd(proc, p, Fresh)
  /\ UNCHANGED <<file, lastOp, faults>>

ForeverNext ==
  \/ Next
  \/ \E p \in Procs : Recycle(p) /\ Track

\* Every runnable process goes on to its next statement, pending signals are
\* handled, and identities are reused when they can be.
\* A hotkey press is always possible in the program; here it needs a free identity,
\* so "the hotkey keeps being pressed" is strong fairness on the toggle invocation,
\* and on its getting past the GROQ_API_KEY test.
ForeverSpec ==
  /\ Init /\ [][ForeverNext]_vars
  /\ \A p \in Procs : WF_vars(ProcStep(p) /\ proc'[p].pc # proc[p].pc)
  /\ \A p \in Procs : WF_vars(DeliverUSR1(p) /\ Track)
  /\ WF_vars(\E p \in Procs : Recycle(p) /\ Track)
  /\ SF_vars(\E p \in Procs : Invoke(p, "toggle") /\ Track)
  /\ SF_vars(\E p \in Procs : proc[p].mode = "toggle" /\ Construct(p, TRUE) /\ Track)

\* The OS gives the pid of a process that is gone to a new process, whatever the
\* state file says: to a later invocation of this program (it is unborn again), or
\* to an unrelated program ("foreign": alive to os.kill(pid, 0), no handler of
\* ours, none of our code)
ReusePid(p, kind) ==
  /\ proc[p].pc \in {"exited", "dead"}
  /\ faults.reuses < MaxFaults
  /\ faults' = [faults EXCEPT !.reuses = @ + 1]
  /\ proc' = Upd(proc, p, IF kind = "foreign" THEN [Fresh EXCEPT !.pc = "foreign"] ELSE Fresh)
  /\ UNCHANGED <<file, lastOp>>

\* the program and its faults, with the pids of gone processes given out again
ReuseNext ==
  \/ Next
  \/ \E p \in Procs, kind \in {"ours", "foreign"} : ReusePid(p, kind) /\ Track

ReuseSpec == Init /\ [][ReuseNext]_vars

\* SIGUSR1 sent to p by anything but a toggle that read p's record: the handler
\* registered in __init__ serves every sender (kill -USR1 from a shell, a toggle
\* that read a record left by an earlier holder of the pid)
\* Sent at any moment, it is handled at any moment: the step is its handling.
ExternalUSR1(p) ==
  /\ Alive(p)
  /\ faults.terms + faults.crashes + faults.signals < MaxFaults
  /\ faults' = [faults EXCEPT !.signals = @ + 1]
  /\ proc' = Upd(proc, p, IF proc[p].handlers THEN stop_recording_signal(proc[p])
                                              ELSE [Fresh EXCEPT !.pc = "dead"])
  /\ UNCHANGED <<file, lastOp>>

\* the program with stray stop notifications and no other fault
SignalNext ==
  \E p \in Procs :
    \/ (\E m \in Modes : Invoke(p, m)) /\ Track
    \/ ProcStep(p)
    \/ (AudioCallback(p)) /\ Track
    \/ (ExternalUSR1(p)) /\ Track

SignalSpec == Init /\ [][SignalNext]_vars

TypeOK ==
  /\ file \in FileValues
  /\ \A p \in Procs : proc[p].pc \in PcValues

----------------------------------------------------------------------------
\* The state store and the liveness probe, one whole call at a time, on any
\* content the state file can hold

\* What the file can hold: nothing at all ("absent"), zero bytes ("empty"), bytes
\* json.load rejects ("corrupt": truncated or not JSON), JSON that is no object
\* ("nondict": a list, a number, a string, null), or a JSON object ("dict") whose
\* "recording" is missing, false, true or some other truthy value ("text") and whose
\* "pid" is missing or null ("none"), an integer, or some other truthy value ("text").
Blob(kind) == [kind |-> kind, rec |-> "missing", pidk |-> "none", pid |-> None]
Dict(rec, pidk, pid) == [kind |-> "dict", rec |-> rec, pidk |-> pidk, pid |-> pid]

Dicts ==
  {Dict(r, "none", None) : r \in {"missing", "false", "true", "text"}}
    \cup {Dict(r, "text", None) : r \in {"missing", "false", "true", "text"}}
    \cup {Dict(r, "int", n) : r \in {"missing", "false", "true", "text"}, n \in Procs \cup {None}}

Contents == {Blob(k) : k \in {"absent", "empty", "corrupt", "nondict"}} \cup Dicts

\* {"recording": False, "pid": None}
DefaultDict == Dict("false", "none", None)

\* Python truth of state.get("recording", False) and of state.get("pid")
TruthyRecording(d) == d.rec \in {"true", "text"}
TruthyPid(d) == d.pidk = "text" \/ (d.pidk = "int" /\ d.pid # None)

\* The process table os.kill looks into: no such process, a process of this user,
\* or a process of another user (which an unprivileged caller may not signal).
ProcessTables == [Procs -> {"none", "own", "foreign"}]

\* os.kill(pid, 0): delivers nothing; returns, or raises
os_kill_0(d, ptable) ==
  IF d.pidk # "int" THEN "TypeError"
  ELSE IF d.pid \notin Procs \/ ptable[d.pid] = "none" THEN "ProcessLookupError"
  ELSE IF ptable[d.pid] = "foreign" THEN "PermissionError"
  ELSE "ok"

\* the subclasses of OSError among what os.kill raises
OSErrors == {"ProcessLookupError", "PermissionError"}

Returned(v) == [raised |-> "none", val |-> v]
Raised(e) == [raised |-> e, val |-> FALSE]

\* is_process_running(pid) for the "pid" of d, against the process table
is_process_running_in(d, ptable) ==
  IF ~TruthyPid(d) THEN Returned(FALSE)
  ELSE LET r == os_kill_0(d, ptable) IN
       IF r = "ok" THEN Returned(TRUE)
       ELSE IF r \in OSErrors THEN Returned(FALSE)
       ELSE Raised(r)

\* variant: unlink without asking whether the file exists
cleanup_state_NoTest(f) ==
  IF f.kind = "absent" THEN [file |-> f, raised |-> "FileNotFoundError"]
  ELSE [file |-> Blob("absent"), raised |-> "none"]

\* cleanup_state(): if self.state_file.exists(): self.state_file.unlink()
cleanup_state(f) ==
  IF f.kind # "absent" THEN [file |-> Blob("absent"), raised |-> "none"]
  ELSE [file |-> f, raised |-> "none"]

\* the end of the try block is reached with no return
FellThrough == [raised |-> "no return", val |-> FALSE]

\* The body of get_state's try block: what it returns or raises, and the file after
get_state_try(f, ptable) ==
  IF f.kind = "absent" THEN [out |-> FellThrough, file |-> f]
  ELSE IF f.kind \in {"empty", "corrupt"} THEN [out |-> Raised("JSONDecodeError"), file |-> f]
  ELSE IF f.kind = "nondict" THEN [out |-> Raised("AttributeError"), file |-> f]
  ELSE LET state == Dict(f.rec, f.pidk, f.pid) IN
    IF TruthyRecording(state) /\ TruthyPid(state)
      THEN LET alive == is_process_running_in(state, ptable) IN
        IF alive.raised # "none" THEN [out |-> alive, file |-> f]
        ELSE IF ~alive.val
          THEN LET c == cleanup_state(f) IN
            IF c.raised # "none" THEN [out |-> Raised(c.raised), file |-> c.file]
            ELSE [out |-> Returned(DefaultDict), file |-> c.file]
          ELSE [out |-> Returned(state), file |-> f]
      ELSE [out |-> Returned(state), file |-> f]

\* variant: no except clause around the body
get_state_NoExcept(f, ptable) ==
  LET t == get_state_try(f, ptable) IN
  IF t.out = FellThrough THEN [out |-> Returned(DefaultDict), file |-> t.file]
  ELSE t

\* get_state(): the try block, "except: pass", return the default
get_state(f, ptable) ==
  LET t == get_state_try(f, ptable) IN
  IF t.out.raised # "none" THEN [out |-> Returned(DefaultDict), file |-> t.file]
  ELSE t

\* set_state(recording, pid) as one call with no one else at the file
set_state(recording, pid) ==
  Dict(IF recording THEN "true" ELSE "false", IF pid = None THEN "none" ELSE "int", pid)

StoreInit ==
  /\ file = Absent
  /\ proc = [p \in Procs |-> Fresh]
  /\ lastOp = Op(None, "none")
  /\ faults = [terms |-> 0, crashes |-> 0, signals |-> 0, reuses |-> 0]
  /\ overlapped = FALSE
  /\ \E f \in Contents, pt \in ProcessTables :
       u = [call |-> "none", prev |-> "none", file |-> f, ptable |-> pt,
            arg |-> DefaultDict, ret |-> Returned(FALSE)]

StoreCall(name, arg, ret, f) ==
  /\ u' = [u EXCEPT !.call = name, !.prev = u.call, !.arg = arg, !.ret = ret,
                    !.file = f]
  /\ UNCHANGED <<file, proc, lastOp, faults, overlapped>>

CallGetState ==
  LET r == get_state(u.file, u.ptable) IN StoreCall("get_state", DefaultDict, r.out, r.file)

CallCleanupState ==
  LET r == cleanup_state(u.file) IN
  StoreCall("cleanup_state", DefaultDict,
            IF r.raised = "none" THEN Returned(FALSE) ELSE Raised(r.raised), r.file)

CallIsProcessRunning(d) == StoreCall("is_process_running", d, is_process_running_in(d, u.ptable), u.file)

CallSetState(recording, pid) ==
  /\ recording <=> pid # None
  /\ StoreCall("set_state", DefaultDict, Returned(FALSE), set_state(recording, pid))

\* the pids handed to is_process_running: None or an integer
PidArgs == {Dict("missing", "none", None)} \cup {Dict("missing", "int", n) : n \in Procs \cup {None}}

StoreNext ==
  \/ CallGetState
  \/ CallCleanupState
  \/ \E d \in PidArgs : CallIsProcessRunning(d)
  \/ \E r \in BOOLEAN, pid \in Procs \cup {None} : CallSetState(r, pid)

StoreSpec == StoreInit /\ [][StoreNext]_vars

----------------------------------------------------------------------------
\* The recording session of one VoiceRecorder, one whole call at a time:
\* audio_callback, the SIGUSR1 handler and stop_recording

MaxArrivals == 2
MaxTemps == 2

\* what the stream hands to the callback: arrays of samples
Chunks == {<<1>>, <<2>>, <<2, 1>>}

RECURSIVE Concat(_)
\* np.concatenate(self.audio_buffer, axis=0)
Concat(buffer) == IF buffer = <<>> THEN <<>> ELSE Head(buffer) \o Concat(Tail(buffer))

\* variant: a new chunk is put in front of the buffer
audio_callback_Prepend(v, indata) ==
  IF v.recording THEN [v EXCEPT !.audio_buffer = <<indata>> \o @] ELSE v

\* audio_callback(indata, ...): if self.recording: self.audio_buffer.append(indata.copy())
audio_callback_on(v, indata) ==
  IF v.recording THEN [v EXCEPT !.audio_buffer = Append(@, indata)] ELSE v

\* stop_recording() from the guard to the return: the value returned is None (0
\* here) or the path of the temp file written, named by its place among them
stop_recording_call(v) ==
  IF v.stream = "none" /\ v.audio_buffer = <<>> THEN [v EXCEPT !.ret = Returned(None)]
  ELSE
    LET w == [v EXCEPT !.recording = FALSE, !.stream = "none"] IN
    IF w.audio_buffer = <<>>
      THEN [w EXCEPT !.ufile = set_state(FALSE, None), !.ret = Returned(None)]
      ELSE LET audio_data == Concat(w.audio_buffer)
               temp_file == [data |-> audio_data, at |-> Len(w.arrivals)] IN
           [w EXCEPT !.temps = Append(@, temp_file),
                     !.ufile = set_state(FALSE, None),
                     !.ret = Returned(Len(w.temps) + 1)]

SessionInit ==
  /\ file = Absent
  /\ proc = [p \in Procs |-> Fresh]
  /\ lastOp = Op(None, "none")
  /\ faults = [terms |-> 0, crashes |-> 0, signals |-> 0, reuses |-> 0]
  /\ overlapped = FALSE
  /\ \E r \in BOOLEAN, st \in {"none", "open"},
        f \in {Blob("absent"), set_state(TRUE, 1), set_state(FALSE, None)} :
       u = [call |-> "none", prev |-> "none", recording |-> r, stream |-> st,
            audio_buffer |-> <<>>, arrivals |-> <<>>, temps |-> <<>>, ufile |-> f,
            ret |-> Returned(None)]

SessionCall(name, v) ==
  /\ u' = [v EXCEPT !.call = name, !.prev = u.call]
  /\ UNCHANGED <<file, proc, lastOp, faults, overlapped>>

\* the open stream delivers a chunk; the history keeps it with the flag it met
CallAudioCallback(indata) ==
  /\ u.stream = "open"
  /\ Len(u.arrivals) < MaxArrivals
  /\ SessionCall("audio_callback",
       [audio_callback_on(u, indata) EXCEPT
          !.arrivals = Append(@, [chunk |-> indata, kept |-> u.recording])])

CallStopSignal == SessionCall("stop_recording_signal", [u EXCEPT !.recording = FALSE])

CallStopRecording ==
  /\ Len(u.temps) < MaxTemps
  /\ SessionCall("stop_recording", stop_recording_call(u))

SessionNext ==
  \/ \E c \in Chunks : CallAudioCallback(c)
  \/ CallStopSignal
  \/ CallStopRecording

SessionSpec == SessionInit /\ [][SessionNext]_vars

----------------------------------------------------------------------------
\* One capture, statement by statement, on its two threads: the main thread in
\* the wait loop and stop_recording, the PortAudio thread in audio_callback

\* start_recording has reached its wait loop: flag set, stream running
CaptureInit ==
  /\ file = Absent
  /\ proc = [p \in Procs |-> Fresh]
  /\ lastOp = Op(None, "none")
  /\ faults = [terms |-> 0, crashes |-> 0, signals |-> 0, reuses |-> 0]
  /\ overlapped = FALSE
  /\ u = [call |-> "none", main |-> "loop", cb |-> "idle", indata |-> <<>>,
          recording |-> TRUE, stream |-> "active", audio_buffer |-> <<>>,
          arrivals |-> 0, audio_data |-> "none", late |-> FALSE, afterStop |-> FALSE]

CaptureStep(name, v) ==
  /\ u' = [v EXCEPT !.call = name]
  /\ UNCHANGED <<file, proc, lastOp, faults, overlapped>>

\* audio_callback: "if self.recording:" evaluated for a chunk the stream delivers
CallbackTest(indata) ==
  /\ u.stream = "active" /\ u.cb = "idle"
  /\ u.arrivals < MaxArrivals
  /\ CaptureStep("callback_test",
       IF u.recording THEN [u EXCEPT !.cb = "tested", !.indata = indata, !.arrivals = @ + 1]
                      ELSE [u EXCEPT !.arrivals = @ + 1])

\* audio_callback: self.audio_buffer.append(indata.copy()); the history notes an
\* append made with the flag already cleared, or with the stream already stopped
CallbackAppend ==
  /\ u.cb = "tested"
  /\ CaptureStep("callback_append",
       [u EXCEPT !.audio_buffer = Append(@, u.indata), !.cb = "idle", !.indata = <<>>,
                 !.late = @ \/ ~u.recording,
                 !.afterStop = @ \/ u.stream # "active"])

\* stop_recording_signal, run by the main thread between any two of its statements
HandleStopSignal ==
  /\ u.main # "done"
  /\ u.recording
  /\ CaptureStep("stop_recording_signal", [u EXCEPT !.recording = FALSE])

\* while self.recording: time.sleep(0.1) -- the test that finds the flag cleared
LoopExit ==
  /\ u.main = "loop" /\ ~u.recording
  /\ CaptureStep("loop_exit", [u EXCEPT !.main = "clear"])

\* stop_recording: self.recording = False
ClearFlag ==
  /\ u.main = "clear"
  /\ CaptureStep("clear_flag", [u EXCEPT !.recording = FALSE, !.main = "stop"])

\* variant: stream.stop() returns while a callback is still running
StreamStop_NoWait ==
  /\ u.main = "stop"
  /\ CaptureStep("stream_stop", [u EXCEPT !.stream = "stopped", !.main = "close"])

\* self.stream.stop(): returns once the callback in progress, if any, has returned,
\* and no callback is started after it
StreamStop ==
  /\ u.main = "stop"
  /\ u.cb = "idle"
  /\ CaptureStep("stream_stop", [u EXCEPT !.stream = "stopped", !.main = "close"])

\* self.stream.close(); self.stream = None
StreamClose ==
  /\ u.main = "close"
  /\ CaptureStep("stream_close", [u EXCEPT !.stream = "none", !.main = "combine"])

\* if not self.audio_buffer: ... return None; else
\* audio_data = np.concatenate(self.audio_buffer, axis=0)
Combine ==
  /\ u.main = "combine"
  /\ CaptureStep("combine",
       [u EXCEPT !.main = "done",
                 !.audio_data = IF u.audio_buffer = <<>> THEN "none" ELSE Concat(u.audio_buffer)])

CaptureNext ==
  \/ \E c \in Chunks : CallbackTest(c)
  \/ CallbackAppend
  \/ HandleStopSignal
  \/ LoopExit
  \/ ClearFlag
  \/ StreamStop
  \/ StreamClose
  \/ Combine

CaptureSpec == CaptureInit /\ [][CaptureNext]_vars

----------------------------------------------------------------------------
\* process_recording once stop_recording has returned a path, stage by stage, for
\* every PROCESSING_MODE and OUTPUT_MODE and every outcome of the collaborators

\* os.getenv(...).lower(): the documented values, and any other string ("other")
ProcessingModes == {"instant", "improved", "both", "other"}
OutputModes == {"clipboard", "insert", "both", "other"}

\* the sinks output_text calls for an output mode
Attempted(output_mode) ==
  (IF output_mode \in {"clipboard", "both"} THEN {"clipboard"} ELSE {})
    \cup (IF output_mode \in {"insert", "both"} THEN {"insert"} ELSE {})

\* output_text: copy is what copy_to_clipboard returns and insert what insert_text
\* returns, each when called
output_text(output_mode, copy, insert) ==
  LET success_clipboard == IF output_mode \in {"clipboard", "both"} THEN copy ELSE TRUE
      success_insert == IF output_mode \in {"insert", "both"} THEN insert ELSE TRUE
  IN success_clipboard \/ success_insert

\* the notification output_text shows
output_notification(output_mode, copy, insert) ==
  CASE output_mode = "clipboard" -> IF copy THEN "copied" ELSE "copy failed"
    [] output_mode = "insert" -> IF insert THEN "inserted" ELSE "insert failed"
    [] OTHER ->
         LET success_clipboard == IF output_mode = "both" THEN copy ELSE TRUE
             success_insert == IF output_mode = "both" THEN insert ELSE TRUE IN
         IF success_clipboard /\ success_insert THEN "copied and inserted"
         ELSE IF success_clipboard THEN "copied, insert failed"
         ELSE IF success_insert THEN "inserted, copy failed"
         ELSE "copy and insert failed"

PipelineInit ==
  /\ file = Absent
  /\ proc = [p \in Procs |-> Fresh]
  /\ lastOp = Op(None, "none")
  /\ faults = [terms |-> 0, crashes |-> 0, signals |-> 0, reuses |-> 0]
  /\ overlapped = FALSE
  /\ \E pm \in ProcessingModes, om \in OutputModes :
       u = [call |-> "none", at |-> "transcribe", processing_mode |-> pm,
            output_mode |-> om, text |-> "none", outputs |-> <<>>,
            ret |-> "none", temp |-> "exists", exitCode |-> -1]

PipelineStep(name, v) ==
  /\ u' = [v EXCEPT !.call = name]
  /\ UNCHANGED <<file, proc, lastOp, faults, overlapped>>

Bool(b) == IF b THEN "true" ELSE "false"

\* transcription = self.transcribe_audio(audio_file) and the branch on the mode
PipelineTranscribe(ok) ==
  /\ u.at = "transcribe"
  /\ PipelineStep("transcribe_audio",
       IF ~ok THEN [u EXCEPT !.at = "finally", !.ret = "false"]
       ELSE CASE u.processing_mode = "instant" -> [u EXCEPT !.at = "output", !.text = "raw"]
              [] u.processing_mode = "improved" -> [u EXCEPT !.at = "improve", !.text = "raw"]
              [] u.processing_mode = "both" -> [u EXCEPT !.at = "output_raw", !.text = "raw"]
              [] OTHER -> [u EXCEPT !.at = "finally", !.ret = "false", !.text = "raw"])

\* one call of output_text, kept in the history with what was attempted
OutputCall(copy, insert) ==
  [text |-> u.text, copy |-> copy, insert |-> insert,
   notification |-> output_notification(u.output_mode, copy, insert),
   success |-> output_text(u.output_mode, copy, insert)]

\* processing mode "both": self.output_text(transcription), its result dropped
PipelineOutputRaw(copy, insert) ==
  /\ u.at = "output_raw"
  /\ PipelineStep("output_text",
       [u EXCEPT !.at = "improve", !.outputs = Append(@, OutputCall(copy, insert))])

\* improved_text = self.improve_text(transcription): the text itself on any failure
PipelineImprove(ok) ==
  /\ u.at = "improve"
  /\ PipelineStep("improve_text",
       [u EXCEPT !.at = "output", !.text = IF ok THEN "improved" ELSE "raw"])

\* success = self.output_text(...); self.update_waybar("idle"); return success
PipelineOutput(copy, insert) ==
  /\ u.at = "output"
  /\ PipelineStep("output_text",
       [u EXCEPT !.at = "finally", !.outputs = Append(@, OutputCall(copy, insert)),
                 !.ret = Bool(output_text(u.output_mode, copy, insert))])

\* finally: cleanup_temp_file; then main's sys.exit(0 if success else 1)
PipelineFinally ==
  /\ u.at = "finally"
  /\ PipelineStep("cleanup_temp_file",
       [u EXCEPT !.at = "exited", !.temp = "deleted",
                 !.exitCode = IF u.ret = "true" THEN 0 ELSE 1])

PipelineNext ==
  \/ \E ok \in BOOLEAN : PipelineTranscribe(ok)
  \/ \E copy, insert \in BOOLEAN : PipelineOutputRaw(copy, insert)
  \/ \E ok \in BOOLEAN : PipelineImprove(ok)
  \/ \E copy, insert \in BOOLEAN : PipelineOutput(copy, insert)
  \/ PipelineFinally

PipelineSpec == PipelineInit /\ [][PipelineNext]_vars

----------------------------------------------------------------------------
\* The claims

Capturing(p) == proc[p].pc = "sr_loop"

\* C1 (as stated): in every reachable state at most one process is in Capturing.
C1_MutualExclusion ==
  \A p, q \in Procs : Capturing(p) /\ Capturing(q) => p = q

\* C1 (amended): at most one process is in Capturing as long as no two processes
\* have been inside state-file sections at once and no SIGTERM/SIGINT was delivered.
C1_ExclusionWhenSerialized ==
  (~overlapped /\ faults.terms = 0) => C1_MutualExclusion

\* C1 witness: while nothing has overlapped and no signal was delivered, one process
\* is Capturing and a second toggle has found its session active.
C1_Witness ==
  /\ ~overlapped /\ faults.terms = 0
  /\ \E p, q \in Procs :
       p # q /\ Capturing(p) /\ proc[q].pc \in {"tg_probe", "tg_kill"} /\ proc[q].st.pid = p

StartPcs ==
  {"sr_notify", "sr_open", "sr_set_open", "sr_set_dump", "sr_loop", "stop_begin",
   "se_set_open", "se_set_dump", "sf_set_open", "sf_set_dump", "pr_noaudio",
   "pr_transcribe", "pr_tfail", "pr_output", "pr_finally", "sr_fail"}

\* what read() yields for the file as it is, before any liveness reconciliation
ReadsActive == file.kind = "record" /\ file.recording

C2_Step(p) ==
  LET s == proc[p]
      t == proc'[p]
      owner == s.st.pid IN
  (s.mode = "toggle" /\ t.pc # s.pc /\ faults' = faults) =>
    \* read of an inactive record: the toggle goes on to start_recording
    /\ (s.pc = "gs_read" /\ ~ReadsActive) => (t.pc = "sr_notify" /\ t.sentTo = None)
    \* the start path never signals, and entering the wait loop publishes the record
    /\ (s.pc \in StartPcs) => (t.sentTo = None /\ t.pc \in StartPcs \cup {"exited"})
    /\ (s.pc = "sr_set_dump" /\ file = Empty /\ s.fdLinked) =>
         (t.pc = "sr_loop" /\ t.stream = "open" /\ file' = Record(TRUE, p))
    \* active with a live owner: one SIGUSR1 to the owner, exit 0, nothing started
    /\ (s.pc = "tg_kill" /\ Alive(owner)) =>
         /\ proc'[owner].pendingUSR1
         /\ t.pc = "exited" /\ t.exitCode = 0 /\ t.sentTo = owner
         /\ t.stream = "none" /\ t.artifact = "none" /\ t.pipelineCalls = 0
         /\ file' = file
         /\ \A q \in Procs \ {p, owner} : proc'[q] = proc[q]
         /\ proc'[owner].pc = proc[owner].pc
    /\ (s.pc \in {"gs_probe", "tg_probe"} /\ Alive(owner)) =>
         t.pc = (IF s.pc = "gs_probe" THEN "tg_probe" ELSE "tg_kill")
    /\ (s.pc \in {"tg_probe", "tg_kill"}) => t.pc \in {"tg_kill", "exited"}

\* C2: a toggle that reads an inactive record starts a session (it enters the wait
\* loop with the record active=true, owner=itself); a toggle that reads an active
\* record whose owner is alive sends one SIGUSR1 to that owner and exits 0, without
\* waiting for the owner and without starting a session.
C2_ToggleProtocol == [][\A p \in Procs : C2_Step(p)]_vars

\* C2 witness: a session started from an inactive record is still Capturing, with
\* its record in place, after the second toggle has signalled it and exited 0.
C2_Witness ==
  \E p, q \in Procs :
    /\ Capturing(p) /\ proc[p].view = "inactive" /\ file = Record(TRUE, p)
    /\ proc[q].pc = "exited" /\ proc[q].sentTo = p /\ proc[q].exitCode = 0
    /\ proc[p].pendingUSR1

C3_Step(p) ==
  LET s == proc[p]
      t == proc'[p] IN
  (t.mode = "toggle" /\ t.view = "stale") =>
    /\ t.sentTo = None
    /\ t.pc \in StartPcs \cup {"exited"}
    /\ (t.pc = "exited") => s.pc \in StartPcs \cup {"exited"}
    /\ (s.view # "stale") => (file' = Absent /\ t.pc = "sr_notify")

ReadsInactive == file.kind # "record" \/ (~file.recording /\ file.pid = None)

\* SIGUSR1 was handled while the process sat in the wait loop, and it is still there
StopDelivered(p) == proc[p].pc = "sr_loop" /\ proc[p].usr1At = "capturing"

\* the process was killed, or a SIGTERM/SIGINT was delivered to it
Stopped(p) == proc[p].pc = "dead" \/ proc[p].termAt # "none"

AfterFinalizing ==
  {"pr_noaudio", "pr_transcribe", "pr_tfail", "pr_output", "pr_finally", "sr_fail",
   "exited"}

\* out of the loop with the stream closed, stop_recording returned
Finalized(p) == proc[p].pc \in AfterFinalizing /\ proc[p].stream = "none"

\* C4: a process that handled SIGUSR1 in the wait loop eventually leaves the loop,
\* closes its stream and finishes stop_recording, and the persisted state eventually
\* reads inactive (active=false, no owner), unless the process is killed or
\* terminated by a signal first.
C4_StopHonoured ==
  \A p \in Procs :
    /\ StopDelivered(p) ~> (Finalized(p) \/ Stopped(p))
    /\ StopDelivered(p) ~>
         ((proc[p].pc # "sr_loop" /\ proc[p].stream = "none" /\ ReadsInactive) \/ Stopped(p))

\* C4 witness: a process stopped by SIGUSR1 in the wait loop has finalized and the
\* record is active=false with no owner.
C4_Witness ==
  \E p \in Procs :
    /\ proc[p].usr1At = "capturing" /\ Finalized(p) /\ proc[p].termAt = "none"
    /\ file = Record(FALSE, None)

C6_ArtifactCleanup ==
  \A p \in Procs : proc[p].pc = "exited" => proc[p].artifact # "exists"

\* C7: a process that received SIGTERM/SIGINT while Capturing has exited with its
\* stream stopped and closed, and the state file does not show it as active owner.
C7_CancellationCleanup ==
  \A p \in Procs :
    proc[p].termAt = "capturing" =>
      /\ proc[p].pc = "exited"
      /\ proc[p].stream = "closed"
      /\ ~(file.kind = "record" /\ file.pid = p)

\* C7 witness: a process terminated in the wait loop has exited; its record, which
\* another toggle had read, is gone.
C7_Witness ==
  \E p \in Procs :
    /\ proc[p].termAt = "capturing" /\ proc[p].pc = "exited"
    /\ lastOp = Op(p, "cleanup_and_exit")

\* C8: active=true, owner=P is written only by P, and a record active=true, owner=P
\* (P alive) is changed only by a step of P itself.
C8_SingleWriter ==
  [][\A P \in Procs :
       /\ (file' = Record(TRUE, P) /\ file' # file) => lastOp'.by = P
       /\ (file = Record(TRUE, P) /\ Alive(P) /\ file' # file) => lastOp'.by = P]_vars

C9_Start == lastOp'.via = "start_recording" /\ file' \in {Empty, Corrupt, Record(TRUE, lastOp'.by)}
C9_Stop == lastOp'.via = "stop_recording" /\ file' \in {Empty, Corrupt, Record(FALSE, None)}
C9_Stale ==
  /\ lastOp'.via = "get_state" /\ file' = Absent
  /\ proc[lastOp'.by].pc = "gs_cleanup" /\ ~Alive(proc[lastOp'.by].st.pid)
C9_Signal == lastOp'.via = "cleanup_and_exit" /\ file' = Absent /\ faults'.terms = faults.terms + 1

\* C9 (as stated): the record changes only by the overwrite of session start, the
\* overwrite of stop, and the deletion after a liveness check found the owner dead.
C9_ClosedLifecycle == [][file' # file => (C9_Start \/ C9_Stop \/ C9_Stale)]_vars

\* C9 (amended): the record changes only by the overwrite of session start, the
\* overwrite of stop, the deletion after a liveness check found the owner dead, and
\* the deletion by the SIGTERM/SIGINT handler.
C9_Lifecycle == [][file' # file => (C9_Start \/ C9_Stop \/ C9_Stale \/ C9_Signal)]_vars

\* C9 witness: all four kinds of change have been the last one (here: the handler's).
C9_Witness ==
  /\ lastOp.via = "cleanup_and_exit" /\ file = Absent
  /\ \E p \in Procs : proc[p].pc = "exited" /\ proc[p].termAt = "finalizing"

\* C10: a complete record holds an owner exactly when it is active.
C10_WellFormed ==
  file.kind = "record" => (file.pid # None <=> file.recording)

\* C10 witness: the record written at stop (inactive, no owner) after one written at
\* start.
C10_Witness ==
  /\ file = Record(FALSE, None)
  /\ \E p \in Procs : lastOp = Op(p, "stop_recording") /\ proc[p].pc \in AfterFinalizing

\* the claim's "missing or corrupted": no file, an empty, truncated or non-JSON
\* file, or JSON of the wrong shape (no object, or an object whose fields are
\* missing or of the wrong type); an object with recording true and no pid is not
\* counted
MissingOrCorrupted(f) ==
  \/ f.kind \in {"absent", "empty", "corrupt", "nondict"}
  \/ f.kind = "dict" /\ (f.rec \in {"missing", "text"} \/ f.pidk = "text")
       /\ ~(f.rec = "true" /\ f.pidk = "none")

\* reads as {active: false, owner: absent}
ReadsAsDefault(v) == ~TruthyRecording(v) /\ v.pidk = "none"

\* C11 (as stated): get_state returns without raising on every content of the state
\* file, and on every missing or corrupted content what it returns reads as inactive
\* with no owner.
C11_ReadTotalDefault ==
  [][u'.call = "get_state" =>
       /\ u'.ret.raised = "none"
       /\ MissingOrCorrupted(u.file) => ReadsAsDefault(u'.ret.val)]_vars

\* the object names a recording and an owner, and the owner cannot be probed alive
ProbeFails(f, ptable) ==
  /\ f.kind = "dict" /\ TruthyRecording(f) /\ TruthyPid(f)
  /\ ~(f.pidk = "int" /\ ptable[f.pid] = "own")

\* C11 (amended): get_state never raises. It returns exactly the default for a
\* missing, empty, truncated or non-JSON file, for JSON that is no object, and for an
\* object with truthy recording and pid whose pid is not a process the caller can
\* signal (deleting the file when the pid is an integer); every other JSON object is
\* returned as parsed, whatever its fields, and the file is left alone.
C11_ReadTotal ==
  [][u'.call = "get_state" =>
       LET f == u.file IN
       /\ u'.ret.raised = "none"
       /\ f.kind \in {"absent", "empty", "corrupt", "nondict"} =>
            (u'.ret.val = DefaultDict /\ u'.file = f)
       /\ ProbeFails(f, u.ptable) =>
            /\ u'.ret.val = DefaultDict
            /\ u'.file = IF f.pidk = "int" THEN Blob("absent") ELSE f
       /\ (f.kind = "dict" /\ ~ProbeFails(f, u.ptable)) =>
            (u'.ret.val = Dict(f.rec, f.pidk, f.pid) /\ u'.file = f)]_vars

\* C11 witness: get_state has returned the default on a file that is empty,
\* unparseable or holds JSON that is no object.
C11_Witness ==
  /\ u.call = "get_state" /\ u.file.kind \in {"nondict", "corrupt", "empty"}
  /\ u.ret = Returned(DefaultDict)

\* C13: after cleanup_state the file is absent and nothing was raised; on an absent
\* file the call changes nothing, so a second call leaves what the first left.
C13_ClearIdempotent ==
  [][u'.call = "cleanup_state" =>
       /\ u'.file.kind = "absent"
       /\ u'.ret.raised = "none"
       /\ u'.ptable = u.ptable
       /\ u.file.kind = "absent" => u'.file = u.file]_vars

\* C13 witness: cleanup_state called twice in a row, the first on an existing file.
C13_Witness ==
  /\ u.call = "cleanup_state" /\ u.prev = "cleanup_state"
  /\ u.file.kind = "absent" /\ u.ret.raised = "none"

\* C14: is_process_running returns true exactly when a process with that pid
\* exists, whoever owns it, false for no pid, and changes nothing.
C14_LivenessProbe ==
  [][u'.call = "is_process_running" =>
       /\ u'.ret.raised = "none"
       /\ u'.ret.val = (u'.arg.pidk = "int" /\ u'.arg.pid \in Procs
                         /\ u.ptable[u'.arg.pid] # "none")
       /\ u'.ptable = u.ptable /\ u'.file = u.file]_vars

\* p has truncated the state file and not yet written its record
MidWrite(p) == proc[p].pc \in {"sr_set_dump", "se_set_dump", "sf_set_dump"} /\ proc[p].fdLinked

\* C12: a get_state of another process that reads the file while a set_state is in
\* progress finds the complete previous record (or no file, if there was none) or
\* the complete new record, never an empty or partial file.
C12_AtomicReplace ==
  [][\A q \in Procs :
       (/\ proc[q].pc = "gs_read" /\ proc'[q].pc # "gs_read" /\ faults' = faults
        /\ \E p \in Procs \ {q} : MidWrite(p))
         => file.kind \notin {"empty", "corrupt"}]_vars

\* p is in the except handler of start_recording because the stream did not open
\* or did not start (nothing was recorded, no pipeline ran)
OpenFailed(s) == s.pc = "sr_fail" /\ s.artifact = "none" /\ s.pipelineCalls = 0

C15_Step(p) ==
  LET s == proc[p]
      t == proc'[p] IN
  /\ (s.pc = "sr_open" /\ t.pc = "sr_fail") =>
       (file' = file /\ lastOp' = lastOp /\ t.stream # "open" /\ OpenFailed(t))
  /\ (OpenFailed(s) /\ t.pc # s.pc /\ faults' = faults) =>
       /\ t.pc = "exited" /\ t.exitCode = 1 /\ ~t.recording
       /\ file' = file /\ lastOp' = lastOp
       /\ t.artifact = "none" /\ t.pipelineCalls = 0

\* C15: when InputStream() or stream.start() fails, the process writes nothing to
\* the state file, clears its recording flag and exits with status 1.
C15_StartFailure == [][\A p \in Procs : C15_Step(p)]_vars

\* C15 witness: a toggle that read an inactive state has exited 1 after
\* stream.start() failed, and the state file was never written.
C15_Witness ==
  \E p \in Procs :
    /\ proc[p].pc = "exited" /\ proc[p].exitCode = 1 /\ proc[p].stream = "created"
    /\ proc[p].view = "inactive" /\ ~proc[p].recording
    /\ file = Absent /\ lastOp = Op(None, "none")

\* the positions of the empty-capture path: the report and set_state(False) of
\* stop_recording, then the "if not audio_file" branch of process_recording
EmptyPcs == {"se_set_open", "se_set_dump", "pr_noaudio"}

C16_Step(p) ==
  LET s == proc[p]
      t == proc'[p] IN
  (t.pc # s.pc /\ faults' = faults) =>
    \* stop with nothing buffered: stream closed, no artifact, on to the report
    /\ (s.pc = "stop_begin" /\ s.audio_buffer = <<>>) =>
         (t.pc \in EmptyPcs /\ t.artifact = "none" /\ t.stream = "none" /\ ~t.recording)
    \* the path goes only forward to the exit, with no artifact and no pipeline call
    /\ (s.pc \in EmptyPcs) =>
         /\ t.pc \in EmptyPcs \cup {"exited"}
         /\ t.artifact = "none" /\ t.pipelineCalls = 0
         /\ t.pc = "exited" => t.exitCode = 1
    \* its write, landing on the file it truncated, leaves the inactive record
    /\ (s.pc = "se_set_dump" /\ file = Empty /\ s.fdLinked) => file' = Record(FALSE, None)
    \* and whatever others did to the file meanwhile, it does not name p as owner
    /\ (s.pc = "se_set_dump") => ~(file'.kind = "record" /\ file'.pid = p)

\* C16: a session stopped with an empty buffer creates no artifact, writes the
\* record active=false with no owner, never enters the pipeline and exits 1.
C16_EmptyCapture == [][\A p \in Procs : C16_Step(p)]_vars

\* C16 witness: a process stopped by SIGUSR1 before any chunk arrived has exited 1
\* with no artifact and no pipeline call, and its inactive record is on disk.
C16_Witness ==
  \E p \in Procs :
    /\ proc[p].pc = "exited" /\ proc[p].exitCode = 1 /\ proc[p].view = "inactive"
    /\ proc[p].artifact = "none" /\ proc[p].pipelineCalls = 0 /\ proc[p].stream = "none"
    /\ file = Record(FALSE, None) /\ lastOp = Op(p, "stop_recording")

RECURSIVE KeptChunks(_)
\* the chunks of a history that met the flag set, in arrival order
KeptChunks(arrivals) ==
  IF arrivals = <<>> THEN <<>>
  ELSE IF Head(arrivals).kept THEN <<Head(arrivals).chunk>> \o KeptChunks(Tail(arrivals))
  ELSE KeptChunks(Tail(arrivals))

\* C17: the sample data of every artifact written is the concatenation, in arrival
\* order, of exactly the chunks that had arrived with the recording flag set.
C17_OrderPreserved ==
  \A i \in 1..Len(u.temps) :
    u.temps[i].data = Concat(KeptChunks(SubSeq(u.arrivals, 1, u.temps[i].at)))

\* C17 witness: an artifact was written from two different chunks.
C17_Witness ==
  /\ u.call = "stop_recording" /\ u.ret.val = 1
  /\ Len(u.audio_buffer) = 2 /\ u.audio_buffer[1] # u.audio_buffer[2]
  /\ u.temps[1].data = u.audio_buffer[1] \o u.audio_buffer[2]

\* the last call was a stop_recording that wrote an artifact
Finalizes(v) == v.call = "stop_recording" /\ v.ret.val # None

\* C18: a stop_recording that follows a stop_recording which wrote an artifact
\* writes no further artifact and changes neither the state file nor the fields of
\* the recorder.
C18_StopIdempotent ==
  [][(Finalizes(u) /\ u'.call = "stop_recording") =>
       /\ u'.temps = u.temps /\ u'.ufile = u.ufile
       /\ u'.recording = u.recording /\ u'.stream = u.stream
       /\ u'.audio_buffer = u.audio_buffer]_vars

\* C19: after stop_recording, from any combination of flag, stream and buffer, the
\* recording flag is false and no stream is open; with neither stream nor buffer it
\* returns None without raising.
C19_StopQuiesces ==
  [][u'.call = "stop_recording" =>
       /\ ~u'.recording /\ u'.stream = "none"
       /\ u'.ret.raised = "none"
       /\ (u.stream = "none" /\ u.audio_buffer = <<>>) => u'.ret = Returned(None)]_vars

C20_Step(p) ==
  LET s == proc[p]
      t == proc'[p] IN
  (/\ s.mode = "toggle" /\ t.pc # s.pc /\ faults' = faults
   /\ \/ s.pc = "tg_probe" /\ ~is_process_running(s.st.pid)
      \/ s.pc = "tg_kill" /\ ~Alive(s.st.pid)) =>
    /\ t.pc = "exited" /\ t.exitCode = 1 /\ t.sentTo = None
    /\ t.stream = "none" /\ t.artifact = "none" /\ t.pipelineCalls = 0
    /\ file' = file /\ lastOp' = lastOp
    /\ \A q \in Procs \ {p} : proc'[q] = proc[q]

\* C20: a toggle that was told the session is active and then finds the owner gone,
\* at its own probe or at os.kill, exits 1, sends nothing, starts nothing and leaves
\* the state file exactly as it was.
C20_DeliveryFailure == [][\A p \in Procs : C20_Step(p)]_vars

\* C20 witness: the owner died after get_state found it alive; the toggle has
\* exited 1 and the owner's record is still on disk.
C20_Witness ==
  \E p, q \in Procs :
    /\ proc[p].pc = "exited" /\ proc[p].exitCode = 1 /\ proc[p].view = "active"
    /\ proc[p].sentTo = None
    /\ proc[q].pc = "dead" /\ file = Record(TRUE, q)

----------------------------------------------------------------------------
\* a step in which p's SIGUSR1 handler runs
USR1Handled(p) ==
  /\ proc[p].handlers
  /\ proc'[p].pc \notin {"exited", "dead"}
  /\ \/ proc[p].pendingUSR1 /\ ~proc'[p].pendingUSR1 /\ faults' = faults
     \/ /\ faults'.signals > faults.signals
        /\ proc'[p].usr1At = Phase(proc[p].pc)
        /\ \A q \in Procs \ {p} : proc'[q] = proc[q]

\* the handler left nothing behind but the note that it ran
USR1NoEffect(p) ==
  /\ proc' = Upd(proc, p, [proc[p] EXCEPT !.pendingUSR1 = FALSE, !.usr1At = Phase(proc[p].pc)])
  /\ file' = file
  /\ lastOp' = lastOp

\* C21 as stated: a stop notification handled by a process that is not in the
\* Capturing wait loop changes nothing: not its position, its stream, its buffer,
\* its flag, its artifact, its pipeline, nor the state record.
C21_NoopOutsideLoop ==
  [][\A p \in Procs : USR1Handled(p) /\ proc[p].pc # "sr_loop" => USR1NoEffect(p)]_vars

\* C21: a stop notification handled while self.recording is not set (before
\* start_recording sets it, during finalization, during the pipeline) changes
\* nothing but the note that it was handled, so what the process does next is what
\* it would have done anyway; and start_recording sets the flag whatever was
\* handled before.  A notification handled between the flag being set and the wait
\* loop clears the flag, and the session being started stops at its first test.
C21_NoopWhenFlagClear ==
  [][\A p \in Procs :
       /\ USR1Handled(p) /\ proc[p].pc # "sr_loop" /\ ~proc[p].recording => USR1NoEffect(p)
       /\ proc[p].pc = "sr_notify" /\ proc'[p].pc = "sr_open" => proc'[p].recording]_vars

\* a process that handled a notification before its start is Capturing with its
\* flag set
C21_Witness ==
  \E p \in Procs :
    proc[p].pc = "sr_loop" /\ proc[p].recording /\ proc[p].usr1At = "idle"

----------------------------------------------------------------------------
\* C22: the SIGUSR1 handler is registered before the process is Capturing and
\* before the state record names it as owner: a live process that is Capturing,
\* that is writing or has written its own record, or that has a stop notification
\* addressed to it, has its handlers registered.
C22_HandlerBeforeOwner ==
  \A p \in Procs :
    Alive(p) /\ (\/ Capturing(p)
                 \/ file = Record(TRUE, p)
                 \/ proc[p].pc \in {"sr_set_open", "sr_set_dump"}
                 \/ proc[p].pendingUSR1)
      => proc[p].handlers

\* the recorded owner is Capturing with a stop notification on its way
C22_Witness ==
  \E p \in Procs :
    /\ Capturing(p) /\ file = Record(TRUE, p)
    /\ proc[p].pendingUSR1 /\ proc[p].handlers

----------------------------------------------------------------------------
\* C23: a toggle invocation exits 0 only when toggle_recording returned success,
\* and an invocation interrupted (SIGINT or SIGTERM) while recording, finalizing or
\* processing exits 1.
C23_ExitCodes ==
  \A p \in Procs :
    proc[p].pc = "exited" /\ proc[p].mode = "toggle" =>
      /\ proc[p].exitCode \in {0, 1}
      /\ proc[p].exitCode = 0 => proc[p].termAt = "none"
      /\ proc[p].termAt \in {"capturing", "finalizing", "pipeline"} => proc[p].exitCode = 1

----------------------------------------------------------------------------
\* C24 as stated: a --status invocation that has ended has printed "recording" or
\* "idle" and has exit status 0, in every case.
C24_StatusAlwaysZero ==
  \A p \in Procs :
    proc[p].mode = "status" /\ proc[p].pc = "exited" =>
      proc[p].exitCode = 0 /\ proc[p].printed \in {"recording", "idle"}

\* what a --status invocation never does: it only constructs the recorder and
\* reads the state; it opens no stream, writes no indicator, sends no signal
StatusOnlyReads(s) ==
  /\ s.pc \in {"init", "gs_read", "gs_probe", "gs_cleanup", "exited"}
  /\ ~s.recording /\ s.stream = "none" /\ s.artifact = "none"
  /\ s.waybar = "none" /\ s.sentTo = None /\ s.pipelineCalls = 0

\* how a --status invocation ends: with no GROQ_API_KEY it prints no status and
\* exits 1 before reading anything; killed by SIGTERM/SIGINT outside get_state it
\* prints nothing (exit status 0); otherwise it prints and exits 0
StatusEnd(s) ==
  CASE s.printed = "none" ->
         \/ s.exitCode = 1 /\ s.view = "none" /\ s.termAt = "none"
         \/ s.exitCode = 0 /\ s.termAt # "none"
    [] s.printed = "recording" -> s.exitCode = 0 /\ s.view = "active"
    [] s.printed = "idle" -> s.exitCode = 0 /\ s.view \in {"inactive", "stale", "interrupted"}

\* the step in which a --status invocation prints: "recording" exactly when the
\* record it read is active and the probe of its owner, made in this step, succeeds
C24_Step(s, t) ==
  s.mode = "status" /\ t.printed # s.printed =>
    /\ t.pc = "exited" /\ t.exitCode = 0
    /\ t.printed = "recording" <=>
         /\ s.pc = "gs_probe" /\ s.st.recording /\ is_process_running(s.st.pid)
         /\ faults' = faults

\* C24: with GROQ_API_KEY set, --status prints "recording" when the state is
\* active with a live owner and "idle" otherwise and exits 0; without the key it
\* prints no status and exits 1; in no case does it start a session or send a stop
\* notification.
C24_StatusQuery ==
  /\ [](\A p \in Procs : proc[p].mode = "status" =>
          /\ StatusOnlyReads(proc[p])
          /\ proc[p].pc = "exited" => StatusEnd(proc[p]))
  /\ [][\A p \in Procs : C24_Step(proc[p], proc'[p])]_vars

\* a --status invocation printed "recording" and exited 0 while the owner it
\* probed is Capturing
C24_Witness ==
  \E p, q \in Procs :
    /\ proc[p].mode = "status" /\ proc[p].pc = "exited"
    /\ proc[p].printed = "recording" /\ proc[p].exitCode = 0
    /\ Capturing(q)

----------------------------------------------------------------------------
\* the main thread has combined the buffer, or found it empty
Combined == u.main = "done"

----------------------------------------------------------------------------
\* C26: the status indicator follows the session: it reads "recording" while the
\* process is Capturing, "processing" once an artifact was finalized and until the
\* pipeline has reported, and whenever a process that wrote the indicator has
\* exited, by whatever path, the last value it wrote is "idle".
C26_IndicatorFollows ==
  \A p \in Procs :
    /\ Capturing(p) => proc[p].waybar = "recording"
    /\ proc[p].pc \in {"sf_set_dump", "pr_transcribe"} => proc[p].waybar = "processing"
    /\ proc[p].pc = "exited" /\ proc[p].waybar # "none" => proc[p].waybar = "idle"

----------------------------------------------------------------------------
\* a session that was started and whose state is not yet cleared
Holding(s) ==
  s.pc \in {"sr_loop", "stop_begin", "se_set_open", "se_set_dump", "sf_set_open", "sf_set_dump"}

\* a toggle on its start path, its record not yet written
Starting(s) == s.pc \in {"sr_notify", "sr_open", "sr_set_open", "sr_set_dump"}

\* a toggle on its stop path
Stopping(s) == s.pc \in {"tg_probe", "tg_kill"}

Serialized == ~overlapped /\ faults.terms = 0 /\ faults.crashes = 0

----------------------------------------------------------------------------
\* C28: a process in the Capturing wait loop is named by the state record as the
\* owner of an active session, so the next toggle can find and stop it -- here
\* asked only of runs in which no two processes were ever inside a state-file
\* section at once.
C28_CapturingAddressable ==
  ~overlapped => \A p \in Procs : Capturing(p) => file = Record(TRUE, p)

----------------------------------------------------------------------------
\* C29: while the hotkey keeps being pressed, every process that enters Capturing
\* eventually leaves it -- here asked only of runs in which no two processes were
\* ever inside a state-file section at once, and only for as long as no second
\* process is Capturing beside it.
C29_NoOrphanedRecording ==
  \A p \in Procs :
    Capturing(p) ~> (\/ ~Capturing(p)
                     \/ overlapped
                     \/ \E q \in Procs \ {p} : Capturing(q))

----------------------------------------------------------------------------
\* a sink that was attempted in the call o succeeded
SomeSinkSucceeded(o) ==
  \/ "clipboard" \in Attempted(u.output_mode) /\ o.copy
  \/ "insert" \in Attempted(u.output_mode) /\ o.insert

\* C30: for the output modes clipboard, insert and both and every combination of
\* sink outcomes, output_text reports success exactly when a sink that was attempted
\* succeeded; and when the last output step's attempted sinks all failed, the
\* pipeline returns failure and the process exits 1.
C30_OutputReflectsSinks ==
  u.output_mode \in {"clipboard", "insert", "both"} =>
    /\ \A k \in 1..Len(u.outputs) : u.outputs[k].success <=> SomeSinkSucceeded(u.outputs[k])
    /\ u.at = "exited" /\ u.outputs # <<>> /\ ~SomeSinkSucceeded(u.outputs[Len(u.outputs)])
         => u.ret = "false" /\ u.exitCode = 1

----------------------------------------------------------------------------
\* a step in which toggle p's os.kill(recording_pid, SIGUSR1) succeeds
SendsStop(p) ==
  /\ proc[p].pc = "tg_kill"
  /\ proc'[p].pc = "exited" /\ proc'[p].sentTo # None

\* a process that has written a record naming itself and has not exited: it is
\* Capturing, finalizing, or already in its pipeline
WroteOwnRecord(s) == Holding(s) \/ s.pc \in {"pr_noaudio", "pr_transcribe", "pr_tfail",
                                            "pr_output", "pr_finally", "sr_fail"}

\* C31 as stated: whatever pids are reused, a toggle sends the stop notification
\* only to a process that wrote the current record naming itself owner and is still
\* in its recording session.
C31_OnlyOwners ==
  [][\A p \in Procs :
       SendsStop(p) =>
         LET t == proc'[p].sentTo IN
         /\ file = Record(TRUE, t)
         /\ Holding(proc[t])]_vars

\* C31: a toggle sends the stop notification to the pid named by the active record
\* it read, and to no other process, once that pid has answered the liveness probe.
\* As long as no pid has been reused, the receiver is another process that wrote a
\* record naming itself and is Capturing, finalizing or already in its pipeline.
\* Once the pid of a process that is gone has been reused, the receiver is whoever
\* holds the pid: an unrelated process, or the toggle itself.
C31_StopGoesToRecordedPid ==
  [][\A p \in Procs :
       SendsStop(p) =>
         LET t == proc'[p].sentTo IN
         /\ proc[p].st = [recording |-> TRUE, pid |-> t]
         /\ Alive(t)
         /\ \A q \in Procs \ {p} :
              proc'[q] = IF q = t THEN [proc[q] EXCEPT !.pendingUSR1 = TRUE] ELSE proc[q]
         /\ faults.reuses = 0 => t # p /\ WroteOwnRecord(proc[t])]_vars

\* a toggle has sent the stop notification to an unrelated process that holds the
\* pid of a dead owner
C31_Witness ==
  \E p, t \in Procs :
    /\ proc[p].pc = "exited" /\ proc[p].sentTo = t
    /\ proc[t].pc = "foreign" /\ proc[t].pendingUSR1

====
